---- MODULE Spec2Model ----
(***************************************************************************)
(* Model of src/educational_modules/randy_cannabis_fibonacci.rs:           *)
(* the memoized strain-multiplied Fibonacci engine                         *)
(* (RandyCannabisFibonacci), its chunked concurrent range evaluation and   *)
(* the bounded iterator (CannabisFibonacciIterator).                       *)
(*                                                                         *)
(* u128 values do not fit the model checker's integers, so a u128 (and any *)
(* wider intermediate) is a little-endian sequence of 15-bit limbs without *)
(* high zero limbs; <<>> is 0.  An f64 is a record [m, e] standing for the *)
(* real m * 2^e with m < 2^53 + 1, which is exact for every f64 the        *)
(* program computes (all are finite, non-negative and normal).             *)
(*                                                                         *)
(* The arithmetic operators bind their arguments as elements of singleton  *)
(* sets ({body : x \in {a}}), which evaluates each argument once however   *)
(* often the body uses it; Only(S) is the element of the singleton S.      *)
(***************************************************************************)
EXTENDS Integers, Sequences, FiniteSets, TLC

\* ------------------------------------------------------------------------
\* Multi-limb naturals
\* ------------------------------------------------------------------------
LimbBits == 15
Base == 32768

Only(S) == CHOOSE r \in S : TRUE

RECURSIVE Norm(_)
Norm(x) ==
  IF x = <<>> THEN <<>>
  ELSE IF x[Len(x)] = 0 THEN Norm(SubSeq(x, 1, Len(x) - 1))
  ELSE x

RECURSIVE FromNat(_)
FromNat(n) == IF n = 0 THEN <<>> ELSE <<n % Base>> \o FromNat(n \div Base)

RECURSIVE ToNat(_)
ToNat(x) == IF x = <<>> THEN 0 ELSE x[1] + Base * ToNat(Tail(x))

Limb(x, i) == IF i <= Len(x) THEN x[i] ELSE 0

RECURSIVE SmallBitLen(_)
SmallBitLen(n) == IF n = 0 THEN 0 ELSE 1 + SmallBitLen(n \div 2)

BitLen(x) ==
  Only({IF v = <<>> THEN 0 ELSE LimbBits * (Len(v) - 1) + SmallBitLen(v[Len(v)]) : v \in {x}})

RECURSIVE AddAux(_, _, _, _)
AddAux(a, b, i, carry) ==
  IF i > Len(a) /\ i > Len(b)
  THEN (IF carry = 0 THEN <<>> ELSE <<carry>>)
  ELSE LET s == Limb(a, i) + Limb(b, i) + carry
       IN  <<s % Base>> \o AddAux(a, b, i + 1, s \div Base)

Add(a, b) == Only({AddAux(x, y, 1, 0) : x \in {a}, y \in {b}})

RECURSIVE MulSmallAux(_, _, _, _)
MulSmallAux(a, d, i, carry) ==
  IF i > Len(a)
  THEN (IF carry = 0 THEN <<>> ELSE <<carry>>)
  ELSE LET p == a[i] * d + carry
       IN  <<p % Base>> \o MulSmallAux(a, d, i + 1, p \div Base)

\* a * d for 0 <= d < Base
MulSmall(a, d) ==
  Only({IF e = 0 THEN <<>> ELSE MulSmallAux(x, e, 1, 0) : x \in {a}, e \in {d}})

ShiftLimbs(x, k) == Only({IF v = <<>> THEN <<>> ELSE [i \in 1..k |-> 0] \o v : v \in {x}})

RECURSIVE MulAux(_, _, _)
MulAux(a, b, i) ==
  IF i > Len(b) THEN <<>>
  ELSE Add(ShiftLimbs(MulSmall(a, b[i]), i - 1), MulAux(a, b, i + 1))

Mul(a, b) == Only({MulAux(x, y, 1) : x \in {a}, y \in {b}})

RECURSIVE DivSmallAux(_, _, _, _, _)
DivSmallAux(x, d, i, rem, acc) ==
  IF i = 0 THEN [q |-> Norm(acc), r |-> rem]
  ELSE Only({DivSmallAux(x, d, i - 1, cur % d, a) :
               cur \in {rem * Base + x[i]}, a \in {<<(rem * Base + x[i]) \div d>> \o acc}})

\* quotient and remainder of x by d, 0 < d < Base
DivSmall(x, d) == Only({DivSmallAux(v, d, Len(v), 0, <<>>) : v \in {x}})

\* x * 2^k
Shl(x, k) ==
  Only({ShiftLimbs(MulSmall(v, 2 ^ (j % LimbBits)), j \div LimbBits) : v \in {x}, j \in {k}})

\* floor(x / 2^k)
Shr(x, k) ==
  Only({IF drop >= Len(v) THEN <<>>
        ELSE DivSmall(SubSeq(v, drop + 1, Len(v)), 2 ^ (k % LimbBits)).q :
          v \in {x}, drop \in {k \div LimbBits}})

\* bit i (from 0) of x
Bit(x, i) == (Limb(x, (i \div LimbBits) + 1) \div (2 ^ (i % LimbBits))) % 2

\* some bit below bit k of x is set
LowBitsSet(x, k) ==
  \/ \E i \in 1..(k \div LimbBits) : Limb(x, i) # 0
  \/ Limb(x, (k \div LimbBits) + 1) % (2 ^ (k % LimbBits)) # 0

\* x / 2^k rounded to the nearest integer, ties to even
RoundShr(x, k) ==
  Only({IF j = 0 THEN v
        ELSE LET up == Bit(v, j - 1) = 1 /\ (LowBitsSet(v, j - 1) \/ Bit(v, j) = 1)
             IN  Only({IF up THEN Add(q, <<1>>) ELSE q : q \in {Shr(v, j)}}) :
          v \in {x}, j \in {k}})

\* ------------------------------------------------------------------------
\* u128 and f64 arithmetic as the program uses it
\* ------------------------------------------------------------------------
U128Bits == 128
F64Mantissa == 53

\* u128::MAX = 2^128 - 1
U128Max == [i \in 1..9 |-> IF i < 9 THEN Base - 1 ELSE 255]

\* u128::saturating_add
saturating_add(a, b) ==
  Only({IF BitLen(s) > U128Bits THEN U128Max ELSE s : s \in {Add(a, b)}})

RECURSIVE LessAux(_, _, _)
LessAux(a, b, i) ==
  IF i = 0 THEN FALSE
  ELSE IF a[i] # b[i] THEN a[i] < b[i]
  ELSE LessAux(a, b, i - 1)

\* a < b
Less(a, b) ==
  Only({IF Len(x) # Len(y) THEN Len(x) < Len(y) ELSE LessAux(x, y, Len(x)) :
          x \in {a}, y \in {b}})

\* the f64 nearest to the natural x (round to nearest, ties to even)
F64Round(x) ==
  Only({Only({[m |-> RoundShr(v, k), e |-> k] :
                k \in {IF BitLen(v) > F64Mantissa THEN BitLen(v) - F64Mantissa ELSE 0}}) :
          v \in {x}})

\* `x as f64` for a u128 x
U128AsF64(x) == F64Round(x)

\* the f64 product a * b, correctly rounded
F64Mul(a, b) ==
  Only({Only({[m |-> p.m, e |-> p.e + x.e + y.e] : p \in {F64Round(Mul(x.m, y.m))}}) :
          x \in {a}, y \in {b}})

\* `f as u128` for a non-negative finite f64: truncates, saturates at MAX
F64AsU128(f) ==
  Only({IF g.e >= 0
        THEN Only({IF BitLen(v) > U128Bits THEN U128Max ELSE v : v \in {Shl(g.m, g.e)}})
        ELSE Shr(g.m, 0 - g.e) : g \in {f}})

\* the f64 a decimal literal num/den in [1/2, 2) denotes
F64Lit(num, den) ==
  LET k  == IF num >= den THEN 52 ELSE 53
      d  == DivSmall(Shl(FromNat(num), k), den)
      up == 2 * d.r > den \/ (2 * d.r = den /\ Bit(d.q, 0) = 1)
  IN  [m |-> IF up THEN Add(d.q, <<1>>) ELSE d.q, e |-> 0 - k]

\* ------------------------------------------------------------------------
\* Strains and the recurrence step
\* ------------------------------------------------------------------------
CannabisStrain == {"Sativa", "Indica", "Hybrid"}

\* the multiplier of CannabisStrain::characteristics (1.2, 0.8, 1.0) as f64
characteristics ==
  [s \in CannabisStrain |->
     CASE s = "Sativa" -> F64Lit(12, 10)
       [] s = "Indica" -> F64Lit(8, 10)
       [] s = "Hybrid" -> F64Lit(10, 10)]

\* lines 111-112: (fib1.saturating_add(fib2) as f64 * multiplier) as u128
enhanced_result(fib1, fib2, multiplier) ==
  F64AsU128(F64Mul(U128AsF64(saturating_add(fib1, fib2)), multiplier))

\* A u64 or usize x is held as the integer of least absolute value that is
\* congruent to x modulo 2^64: 0, 1, 2, ... stand for themselves and
\* -1, -2, ... for 2^64 - 1, 2^64 - 2, ...  The model only holds values
\* within 2^30 of 0 or of 2^64, on which the wrapping sum is the integer sum.
U64Max == 0 - 1
UsizeMax == U64Max
\* x < y and x <= y of two u64
U64Lt(x, y) == IF (x < 0) = (y < 0) THEN x < y ELSE y < 0
U64Le(x, y) == x = y \/ U64Lt(x, y)

\* ------------------------------------------------------------------------
\* Bounds of the exploration
\* ------------------------------------------------------------------------
MaxWorkers == 2
MaxIterCalls == 102
CallInputs == {0, 1, 2, 63, 79, 186, 187, 200}
ParCallInputs == {3, 187}
SeqInputs == {0, 1, 5, 187, 188, UsizeMax}
ChunkRangeInputs == {<<0, 3>>, <<0, 11>>, <<U64Max - 5, U64Max>>, <<U64Max - 15, U64Max - 2>>}
LockRangeInputs == {<<0, 11>>, <<187, 188>>}
RangeInputs == {<<5, 5>>, <<7, 3>>, <<0, 3>>, <<0, 11>>, <<177, 188>>}

\* program constants, each preceded by an off-by-one variant of it
OverflowLimit_low == 186 - 1
OverflowLimit == 186
ChunkSize == 10
IterLimit_low == 100 - 1
IterLimit == 100

\* ------------------------------------------------------------------------
\* State
\* ------------------------------------------------------------------------
VARIABLES
  strain,      \* strain of the engine and of the iterator
  cache,       \* RandyCannabisFibonacci.cache: index -> u128
  main,        \* the calling thread: [pc, stack, op, a, b, call, join, last]
  workers,     \* every chunk thread spawned so far, in spawn order
  results,     \* results[k]: the shared result map of the k-th range call
  ret,         \* what the caller's last finished call returned
  it,          \* CannabisFibonacciIterator: [current, next, count]
  it_out,      \* what the last Iterator::next returned
  yielded,     \* the elements yielded before the first end-of-sequence
  it_ended,    \* Iterator::next has returned None at least once
  lock         \* the two mutexes: [cache, results, entered], sets of threads

vars == <<strain, cache, main, workers, results, ret,
          it, it_out, yielded, it_ended, lock>>
engineVars == <<cache, main, workers, results, ret, lock>>
iterVars == <<it, it_out, yielded, it_ended>>

Ok(v) == [kind |-> "ok", val |-> v, err |-> ""]
Err(e) == [kind |-> "err", val |-> <<>>, err |-> e]
Pending == [kind |-> "none", val |-> <<>>, err |-> ""]
Some(v) == [kind |-> "some", val |-> v, err |-> ""]
None == [kind |-> "end", val |-> <<>>, err |-> ""]
\* the call did not return: the calling thread panicked with message e
Panic(e) == [kind |-> "panic", val |-> <<>>, err |-> e]

OverflowError == "Fibonacci overflow: Result would exceed u128 capacity"
RangeError == "Invalid range: end must be greater than start"
PanicError == "Thread panic during computation"
CapacityPanic == "capacity overflow"
AddPanic == "attempt to add with overflow"

\* one activation of plant_spirit_fibonacci(n)
Frame(n) == [n |-> n, pc |-> "check", fib1 |-> <<>>, result |-> <<>>]

Top(stk) == stk[Len(stk)]
Pop(stk) == SubSeq(stk, 1, Len(stk) - 1)
SetTop(stk, f) == [stk EXCEPT ![Len(stk)] = f]

\* RandyCannabisFibonacci::new
new_cache == (0 :> <<>>) @@ (1 :> <<1>>)

\* an insert into a map that is emptied once it holds 8 entries
cache_insert_evicting(c, n, v) ==
  IF Cardinality(DOMAIN c) >= 8 /\ n \notin DOMAIN c
  THEN (0 :> <<>>) @@ (1 :> <<1>>) @@ (n :> v)
  ELSE [k \in DOMAIN c \cup {n} |-> IF k = n THEN v ELSE c[k]]

\* HashMap::insert
cache_insert(c, n, v) == [k \in DOMAIN c \cup {n} |-> IF k = n THEN v ELSE c[k]]

\* an activation returns r to the activation below it (stk is the stack
\* without the returning activation); `?` passes an error further down
RECURSIVE Deliver(_, _, _)
Deliver(stk, r, mult) ==
  IF stk = <<>> THEN [stack |-> <<>>, out |-> r]
  ELSE LET c == Top(stk) IN
       IF r.kind = "err" THEN Deliver(Pop(stk), r, mult)
       ELSE IF c.pc = "ret1"
       THEN [stack |-> SetTop(stk, [c EXCEPT !.pc = "ret2", !.fib1 = r.val])
                         \o <<Frame(c.n - 2)>>,
             out |-> Pending]
       ELSE [stack |-> SetTop(stk, [c EXCEPT !.pc = "insert",
                         !.result = enhanced_result(c.fib1, r.val, mult)]),
             out |-> Pending]

\* one atomic step of the top activation of plant_spirit_fibonacci: either
\* the bound check and the locked cache lookup (lines 91-101, and the call
\* that follows a miss), or the locked insert and the return (118-123).
\* The unwrap() of lines 97 and 119 panics only on a poisoned mutex, that is
\* after a thread panicked while it owned the guard: the guard is owned only
\* over HashMap::get and HashMap::insert, which do not panic, so the mutex
\* is never poisoned and lock().unwrap() always yields the guard.
plant_spirit_fibonacci(stk, c, mult) ==
  LET f == Top(stk) IN
  IF f.pc = "check"
  THEN IF U64Lt(OverflowLimit, f.n)
       THEN Deliver(Pop(stk), Err(OverflowError), mult) @@ [cache |-> c]
       ELSE IF f.n \in DOMAIN c
       THEN Deliver(Pop(stk), Ok(c[f.n]), mult) @@ [cache |-> c]
       ELSE IF U64Le(f.n, 1)
       THEN [stack |-> SetTop(stk, [f EXCEPT !.pc = "insert", !.result = FromNat(f.n)]),
             out |-> Pending, cache |-> c]
       ELSE [stack |-> SetTop(stk, [f EXCEPT !.pc = "ret1"]) \o <<Frame(f.n - 1)>>,
             out |-> Pending, cache |-> c]
  ELSE Deliver(Pop(stk), Ok(f.result), mult) @@ [cache |-> cache_insert(c, f.n, f.result)]

\* line 133: the loop `for i in 0..count` has a next index i
SeqContinues(i, count) == U64Lt(i, count)

Idle == [pc |-> "idle", stack |-> <<>>, op |-> "none", a |-> 0, b |-> 0,
         call |-> 0, join |-> 0, last |-> 0, sequence |-> <<>>]
NoRet == [op |-> "none", a |-> 0, b |-> 0] @@ Pending

\* lock.cache and lock.results hold the thread that owns the guard of the
\* mutex of `cache` and of the result map (the caller is thread 0, the chunk
\* thread workers[i] is thread i); lock.entered holds the threads that are
\* past a lock() call and before the end of the block it opens
NoLock == [cache |-> {}, results |-> {}, entered |-> {}]

Init ==
  /\ strain \in CannabisStrain
  /\ cache = new_cache
  /\ main = Idle
  /\ workers = <<>>
  /\ results = <<>>
  /\ ret = NoRet
  /\ it = [current |-> <<>>, next |-> <<1>>, count |-> 0]
  /\ it_out = Pending
  /\ yielded = <<>>
  /\ it_ended = FALSE
  /\ lock = NoLock

\* ------------------------------------------------------------------------
\* The caller's sequential calls of plant_spirit_fibonacci
\* ------------------------------------------------------------------------
StartCall(n) ==
  /\ main.pc = "idle"
  /\ main' = [Idle EXCEPT !.pc = "call", !.stack = <<Frame(n)>>, !.op = "fib", !.a = n]
  /\ ret' = NoRet

Call(n) ==
  /\ StartCall(n)
  /\ UNCHANGED <<strain, cache, workers, results, lock>>
  /\ UNCHANGED iterVars

\* lines 134-138, after the call of line 134 for i = main.b has returned r:
\* `?` returns its error; otherwise the value is pushed and the loop either
\* calls for the next index or ends with Ok(sequence)
SeqLoop(r) ==
  LET sequence == Append(main.sequence, r.val)
      out == [op |-> "seq", a |-> main.a, b |-> 0] IN
  IF r.kind = "err"
  THEN main' = Idle /\ ret' = out @@ r
  ELSE IF SeqContinues(main.b + 1, main.a)
  THEN /\ main' = [main EXCEPT !.b = main.b + 1, !.sequence = sequence,
                               !.stack = <<Frame(main.b + 1)>>]
       /\ UNCHANGED ret
  ELSE main' = Idle /\ ret' = out @@ Ok(sequence)

\* one atomic step of the caller's running plant_spirit_fibonacci call
MainStep ==
  /\ main.pc = "call"
  /\ LET s == plant_spirit_fibonacci(main.stack, cache, characteristics[strain]) IN
       /\ cache' = s.cache
       /\ IF s.stack # <<>>
          THEN /\ main' = [main EXCEPT !.stack = s.stack]
               /\ UNCHANGED ret
          ELSE IF main.op = "seq"
          THEN SeqLoop(s.out)
          ELSE /\ main' = Idle
               /\ ret' = [op |-> "fib", a |-> main.a, b |-> 0] @@ s.out
  /\ UNCHANGED <<strain, workers, results, lock>>
  /\ UNCHANGED iterVars

CallNext == \E n \in CallInputs : Call(n)

\* ------------------------------------------------------------------------
\* generate_sequence
\* ------------------------------------------------------------------------
\* line 131: Vec::with_capacity(count) panics when count elements of 16
\* bytes exceed isize::MAX bytes, that is when count > 2^59 - 1; of the
\* values the model holds these are the ones within 2^30 of 2^64
CapacityOverflow(count) == count < 0

\* generate_sequence(count) up to its first call of plant_spirit_fibonacci
SeqCall(count) ==
  /\ main.pc = "idle"
  /\ LET out == [op |-> "seq", a |-> count, b |-> 0] IN
       IF CapacityOverflow(count)
       THEN ret' = out @@ Panic(CapacityPanic) /\ UNCHANGED main
       ELSE IF SeqContinues(0, count)
       THEN /\ main' = [Idle EXCEPT !.pc = "call", !.stack = <<Frame(0)>>,
                                    !.op = "seq", !.a = count, !.b = 0]
            /\ ret' = NoRet
       ELSE ret' = out @@ Ok(<<>>) /\ UNCHANGED main
  /\ UNCHANGED <<strain, cache, workers, results, lock>>
  /\ UNCHANGED iterVars

SeqNext == \E count \in SeqInputs : SeqCall(count)

\* ------------------------------------------------------------------------
\* parallel_fibonacci_range and its chunk threads
\* ------------------------------------------------------------------------
Min(a, b) == IF U64Le(a, b) THEN a ELSE b

\* the thread spawned for the chunk [chunk_start, chunk_end); its result map
\* is results[k]; `seen` records the indices its loop of line 160 has taken
\* so far; with chunk_start >= chunk_end the loop body never runs
Worker(k, chunk_start, chunk_end) ==
  IF U64Lt(chunk_start, chunk_end)
  THEN [call |-> k, chunk_start |-> chunk_start, chunk_end |-> chunk_end,
        n |-> chunk_start, pc |-> "run", stack |-> <<Frame(chunk_start)>>, val |-> <<>>,
        seen |-> <<chunk_start>>]
  ELSE [call |-> k, chunk_start |-> chunk_start, chunk_end |-> chunk_end,
        n |-> chunk_start, pc |-> "done", stack |-> <<>>, val |-> <<>>,
        seen |-> <<>>]

\* the number of elements of (start..end).step_by(10), for start < end that
\* are both near 0 or both near 2^64 (the difference is then the integer one)
NChunks(start, end) == ((end - start - 1) \div ChunkSize) + 1

\* (start..end).step_by(10) with chunk_end = min(chunk_start + 10, end)
Chunks(k, start, end) ==
  [i \in 1..NChunks(start, end) |->
     Worker(k, start + ChunkSize * (i - 1),
               Min(start + ChunkSize * (i - 1) + ChunkSize, end))]

\* the chunk loop moves to its next index, or the thread finishes
Advance(w) ==
  IF U64Lt(w.n + 1, w.chunk_end)
  THEN [w EXCEPT !.n = w.n + 1, !.pc = "run", !.stack = <<Frame(w.n + 1)>>, !.val = <<>>,
                 !.seen = Append(w.seen, w.n + 1)]
  ELSE [w EXCEPT !.pc = "done", !.stack = <<>>, !.val = <<>>]

\* a boundary slip in the range check: an empty range is let through
InvalidRange_strict(start, end) == U64Lt(end, start)

\* line 146
InvalidRange(start, end) == U64Le(end, start)

\* line 155: chunk_start + 10 exceeds u64::MAX
AddOverflows(chunk_start) == chunk_start < 0 /\ chunk_start + ChunkSize >= 0

\* lines 145-169: the range check and the spawn loop.  The sum of line 155
\* can exceed u64::MAX only for the last chunk; a build with overflow checks
\* (the default of a debug build) then panics in the calling thread, after
\* the earlier chunks were spawned, and a build without them wraps the sum.
\* The result map of line 150 is shared with the spawned threads; the panic
\* drops it when there is none
RangeCall(start, end) ==
  /\ main.pc = "idle"
  /\ IF InvalidRange(start, end)
     THEN /\ ret' = [op |-> "range", a |-> start, b |-> end] @@ Err(RangeError)
          /\ UNCHANGED <<main, workers, results>>
     ELSE /\ Len(workers) + NChunks(start, end) <= MaxWorkers
          /\ LET chunks == Chunks(Len(results) + 1, start, end)
                 last == Len(chunks) IN
               \E overflow_checks \in
                     IF last > 0 /\ AddOverflows(chunks[last].chunk_start)
                     THEN BOOLEAN ELSE {FALSE} :
                 IF overflow_checks
                 THEN /\ workers' = workers \o SubSeq(chunks, 1, last - 1)
                      /\ results' = IF last > 1 THEN Append(results, <<>>) ELSE results
                      /\ ret' = [op |-> "range", a |-> start, b |-> end] @@ Panic(AddPanic)
                      /\ UNCHANGED main
                 ELSE /\ workers' = workers \o chunks
                      /\ results' = Append(results, <<>>)
                      /\ main' = [Idle EXCEPT !.pc = "join", !.op = "range",
                                    !.a = start, !.b = end,
                                    !.call = Len(results) + 1, !.join = Len(workers) + 1,
                                    !.last = Len(workers')]
                      /\ ret' = NoRet
  /\ UNCHANGED <<strain, cache, lock>>
  /\ UNCHANGED iterVars

RangeNext == \E r \in RangeInputs : RangeCall(r[1], r[2])
ChunkRangeNext == \E r \in ChunkRangeInputs : RangeCall(r[1], r[2])

\* a chunk thread runs one step of its plant_spirit_fibonacci(n): what the
\* step does to the cache and to the thread
WorkerStepEff(i) ==
  /\ workers[i].pc = "run"
  /\ LET w == workers[i]
         s == plant_spirit_fibonacci(w.stack, cache, characteristics[strain]) IN
       /\ cache' = s.cache
       /\ workers' = [workers EXCEPT ![i] =
            IF s.stack # <<>> THEN [w EXCEPT !.stack = s.stack]
            ELSE IF s.out.kind = "ok" THEN [w EXCEPT !.pc = "store", !.stack = <<>>, !.val = s.out.val]
            ELSE Advance(w)]
  /\ UNCHANGED <<strain, main, results, ret>>
  /\ UNCHANGED iterVars

\* the step with its lock() and the drop of its guard, as one atomic step
WorkerStep(i) == WorkerStepEff(i) /\ UNCHANGED lock

\* lines 162-163: results.insert(n, value) under the result-map lock
WorkerStoreEff(i) ==
  /\ workers[i].pc = "store"
  /\ LET w == workers[i] IN
       /\ results' = [results EXCEPT ![w.call] = cache_insert(@, w.n, w.val)]
       /\ workers' = [workers EXCEPT ![i] = Advance(w)]
  /\ UNCHANGED <<strain, cache, main, ret>>
  /\ UNCHANGED iterVars

WorkerStore(i) == WorkerStoreEff(i) /\ UNCHANGED lock

\* handle.join() of line 173 returns once the thread has ended
JoinFinished(w) == w.pc \in {"done", "panicked"}

\* lines 172-177: join the next handle; `?` returns at the first failed
\* join; after the last join the result map is locked, cloned and returned.
\* A join fails when its thread panicked. A chunk thread could panic only
\* at a lock().unwrap() (lines 97, 119, 162), on a poisoned mutex, and no
\* mutex is ever poisoned: no thread gets pc = "panicked", and the error
\* branch below, which is the code of line 173, is never taken.
JoinEff ==
  /\ main.pc = "join"
  /\ LET r == [op |-> "range", a |-> main.a, b |-> main.b] IN
       IF main.join > main.last
       THEN /\ ret' = r @@ Ok(results[main.call])
            /\ main' = Idle
       ELSE /\ JoinFinished(workers[main.join])
            /\ IF workers[main.join].pc = "panicked"
               THEN /\ ret' = r @@ Err(PanicError)
                    /\ main' = Idle
               ELSE /\ main' = [main EXCEPT !.join = main.join + 1]
                    /\ UNCHANGED ret
  /\ UNCHANGED <<strain, cache, workers, results>>
  /\ UNCHANGED iterVars

Join == JoinEff /\ UNCHANGED lock

WorkerNext == \E i \in 1..Len(workers) : WorkerStep(i) \/ WorkerStore(i)
ParCallNext == \E n \in ParCallInputs : Call(n)

\* ------------------------------------------------------------------------
\* The mutexes, with lock() and the drop of the guard as steps of their own
\* ------------------------------------------------------------------------
Threads == 0..MaxWorkers

\* the chunk thread t is inside a plant_spirit_fibonacci call (here the
\* caller, thread 0, makes range calls only)
InCall(t) == t >= 1 /\ t <= Len(workers) /\ workers[t].pc = "run"

ThreadStack(t) == workers[t].stack

\* the mutex that the next step of thread t locks: the cache for the lookup
\* (line 97, reached when n <= 186) and for the insert (line 119), the
\* result map for the chunk thread's insert (line 162) and for the caller's
\* clone after the last join (line 176)
Needs(t) ==
  IF InCall(t)
  THEN LET f == Top(ThreadStack(t)) IN
       IF f.pc = "check" /\ U64Lt(OverflowLimit, f.n) THEN "none" ELSE "cache"
  ELSE IF t = 0
  THEN IF main.pc = "join" /\ main.join > main.last THEN "results" ELSE "none"
  ELSE IF t <= Len(workers) /\ workers[t].pc = "store" THEN "results" ELSE "none"

\* the next step of thread t is a lookup that misses
Misses(t) ==
  /\ InCall(t)
  /\ Top(ThreadStack(t)).pc = "check"
  /\ Top(ThreadStack(t)).n \notin DOMAIN cache

\* a lookup whose guard lives to the end of the function: it is dropped on
\* a hit, which returns, and is still held when a miss goes on to recurse
guard_dropped_on_return(miss) == ~miss

\* lines 96-101: the guard of the lookup is dropped at the end of the block,
\* on a hit (the return of line 99) and on a miss alike
guard_dropped(miss) == TRUE

\* what the step of thread t does to the shared state
Eff(t) ==
  \/ t = 0 /\ JoinEff
  \/ t > 0 /\ t <= Len(workers) /\ (WorkerStepEff(t) \/ WorkerStoreEff(t))

\* lock(): thread t gets the mutex once no thread owns its guard
LockAcquire(t) ==
  /\ Needs(t) # "none"
  /\ t \notin lock.entered
  /\ lock[Needs(t)] = {}
  /\ lock' = [lock EXCEPT ![Needs(t)] = {t}, !.entered = @ \cup {t}]
  /\ UNCHANGED <<strain, cache, main, workers, results, ret>>
  /\ UNCHANGED iterVars

\* the locked block of thread t, up to the drop of its guard
Critical(t) ==
  /\ t \in lock.entered
  /\ Eff(t)
  /\ lock' = [lock EXCEPT ![Needs(t)] = IF guard_dropped(Misses(t)) THEN @ \ {t} ELSE @,
                          !.entered = @ \ {t}]

\* a step of thread t that locks nothing: the Err of line 92, a join
Unlocked(t) ==
  /\ Needs(t) = "none"
  /\ Eff(t)
  /\ UNCHANGED lock

ThreadStep(t) == LockAcquire(t) \/ Critical(t) \/ Unlocked(t)
ThreadNext == \E t \in Threads : ThreadStep(t)
LockRangeNext == \E r \in LockRangeInputs : RangeCall(r[1], r[2])

\* ------------------------------------------------------------------------
\* CannabisFibonacciIterator
\* ------------------------------------------------------------------------
\* Iterator::next, lines 242-259 (the iterator shares no state with the
\* engine, so its calls are placed between the caller's engine calls)
IterNext ==
  /\ main.pc = "idle"
  /\ it.count < MaxIterCalls
  /\ LET result == it.current
         enhanced_next == F64AsU128(F64Mul(U128AsF64(it.next), characteristics[strain]))
         count == it.count + 1
         out == IF count > IterLimit \/ Less(Shr(U128Max, 1), result)
                THEN None ELSE Some(result) IN
       /\ it' = [current |-> it.next,
                 next |-> saturating_add(result, enhanced_next),
                 count |-> count]
       /\ it_out' = out
       /\ yielded' = IF ~it_ended /\ out.kind = "some" THEN Append(yielded, result) ELSE yielded
       /\ it_ended' = (it_ended \/ out.kind = "end")
  /\ UNCHANGED strain
  /\ UNCHANGED engineVars

\* the engine of the same strain is asked for the index just yielded
CallYielded ==
  /\ yielded # <<>>
  /\ StartCall(Len(yielded) - 1)
  /\ UNCHANGED <<strain, cache, workers, results, lock>>
  /\ UNCHANGED iterVars

\* ------------------------------------------------------------------------
\* Specifications
\* ------------------------------------------------------------------------
\* sequential use of one engine
Next == CallNext \/ SeqNext \/ MainStep

Spec == Init /\ [][Next]_vars

\* one engine used by the caller and by the chunk threads of its range calls
NextPar == RangeNext \/ Join \/ WorkerNext \/ ParCallNext \/ MainStep

SpecPar == Init /\ [][NextPar]_vars

\* range calls alone, among them ranges that end at the largest indices
NextChunk == ChunkRangeNext \/ Join \/ WorkerNext

SpecChunk == Init /\ [][NextChunk]_vars

\* range calls with every lock() as a step of its own
NextLock == LockRangeNext \/ ThreadNext

SpecLock == Init /\ [][NextLock]_vars

\* every thread that can take a step is scheduled, and a mutex that stays
\* free is given to a thread that waits for it
Fairness == \A t \in Threads : WF_vars(ThreadStep(t))

SpecLockFair == SpecLock /\ Fairness

\* the iterator, with an engine of the same strain beside it
NextIter == IterNext \/ CallYielded \/ MainStep

SpecIter == Init /\ [][NextIter]_vars

\* ------------------------------------------------------------------------
\* Reference values
\* ------------------------------------------------------------------------
\* the table acc of the values of the indices 0..Len(acc)-1, extended by the
\* values of the next k indices with the recursion of lines 104-115 (the
\* first half is evaluated before the second, which keeps the evaluation
\* shallow)
RECURSIVE Unfold(_, _, _)
Unfold(acc, k, mult) ==
  IF k = 0 THEN acc
  ELSE IF k = 1
  THEN Append(acc, enhanced_result(acc[Len(acc)], acc[Len(acc) - 1], mult))
  ELSE LET half == Unfold(acc, k \div 2, mult)
       IN  IF Len(half) > 0 THEN Unfold(half, k - (k \div 2), mult) ELSE half

\* Standalone[s][n + 1]: what plant_spirit_fibonacci(n) computes on a freshly
\* constructed engine of strain s, 0 <= n <= 186
Standalone ==
  [s \in CannabisStrain |-> Unfold(<<<<>>, <<1>>>>, OverflowLimit - 1, characteristics[s])]

\* the multiplier of each strain as the exact ratio num/den
ExactMultiplier ==
  [s \in CannabisStrain |->
     CASE s = "Sativa" -> <<12, 10>>
       [] s = "Indica" -> <<8, 10>>
       [] s = "Hybrid" -> <<10, 10>>]

\* floor(m * saturating_add(x, y)) in exact arithmetic
ExactStep(s, x, y) ==
  DivSmall(MulSmall(saturating_add(x, y), ExactMultiplier[s][1]), ExactMultiplier[s][2]).q

RECURSIVE UnfoldExact(_, _, _)
UnfoldExact(acc, k, s) ==
  IF k = 0 THEN acc
  ELSE IF k = 1
  THEN Append(acc, ExactStep(s, acc[Len(acc)], acc[Len(acc) - 1]))
  ELSE LET half == UnfoldExact(acc, k \div 2, s)
       IN  IF Len(half) > 0 THEN UnfoldExact(half, k - (k \div 2), s) ELSE half

\* ExactA[s][n + 1]: a(0) = 0, a(1) = 1, a(n) = floor(m * saturating_add(a(n-1), a(n-2)))
ExactA == [s \in CannabisStrain |-> UnfoldExact(<<<<>>, <<1>>>>, 185, s)]

RECURSIVE UnfoldFib(_, _)
UnfoldFib(acc, k) ==
  IF k = 0 THEN acc
  ELSE IF k = 1
  THEN Append(acc, Add(acc[Len(acc)], acc[Len(acc) - 1]))
  ELSE LET half == UnfoldFib(acc, k \div 2)
       IN  IF Len(half) > 0 THEN UnfoldFib(half, k - (k \div 2)) ELSE half

\* StdFib[n + 1]: the Fibonacci number F(n), 0 <= n <= 186
StdFib == UnfoldFib(<<<<>>, <<1>>>>, 185)

\* ------------------------------------------------------------------------
\* Claims
\* ------------------------------------------------------------------------

\* C1: for every strain and every n <= 186 a call plant_spirit_fibonacci(n)
\* returns a(n), with a(0) = 0, a(1) = 1 and
\* a(n) = floor(m * saturating_add(a(n-1), a(n-2))), whatever earlier calls
\* left in the cache.
C1_ReturnsExactRecurrence ==
  (ret.op = "fib" /\ ret.a <= 186) =>
     (ret.kind = "ok" /\ ret.val = ExactA[strain][ret.a + 1])

\* C2: every range call with start < end returns a map (it neither fails
\* nor ends in a panic) whose keys are exactly the indices of [start, end)
\* that are at most 186, each with the value a standalone sequential call
\* gives, whichever indices errored.
C2_RangeResult ==
  (ret.op = "range" /\ U64Lt(ret.a, ret.b)) =>
     /\ ret.kind = "ok"
     /\ DOMAIN ret.val = {n \in {ret.a + d : d \in 0..(ret.b - ret.a - 1)} : U64Le(n, 186)}
     /\ \A n \in DOMAIN ret.val : ret.val[n] = Standalone[strain][n + 1]

\* C3: in every state of the cache, cache[0] = 0, cache[1] = 1, and every
\* cached n > 1 has n-1 and n-2 cached with
\* cache[n] = floor(multiplier * saturating_add(cache[n-1], cache[n-2])).
C3_CacheRecurrence ==
  /\ 0 \in DOMAIN cache /\ cache[0] = <<>>
  /\ 1 \in DOMAIN cache /\ cache[1] = <<1>>
  /\ \A n \in DOMAIN cache :
       n > 1 => /\ n - 1 \in DOMAIN cache
                /\ n - 2 \in DOMAIN cache
                /\ cache[n] = ExactStep(strain, cache[n - 1], cache[n - 2])

\* C4: across every step an index present in the cache stays present with
\* the value it has; a thread that raced on a miss re-inserts the same value.
C4_CacheMonotone ==
  [][\A n \in DOMAIN cache : n \in DOMAIN cache' /\ cache'[n] = cache[n]]_vars

\* a chunk thread is about to insert an index another thread has inserted
\* since this thread missed it
C4_Witness ==
  \E i \in 1..Len(workers) :
     /\ workers[i].pc = "run"
     /\ Top(workers[i].stack).pc = "insert"
     /\ Top(workers[i].stack).n \in DOMAIN cache

\* C5: plant_spirit_fibonacci(n) returns the overflow error exactly when
\* n > 186; a call with n > 186 leaves the cache as it is; no activation of
\* a call with n <= 186 receives an index above 186.
C5_Result ==
  /\ ret.op = "fib" => /\ ret.kind \in {"ok", "err"}
                       /\ (ret.kind = "err") = (ret.a > 186)
                       /\ ret.kind = "err" => ret.err = OverflowError
  /\ (main.op = "fib" /\ main.pc = "call" /\ main.a <= 186) =>
        \A k \in 1..Len(main.stack) : main.stack[k].n <= 186

C5_OverflowGuard ==
  /\ []C5_Result
  /\ [][(main.op = "fib" /\ main.pc = "call" /\ main.a > 186) => cache' = cache]_vars

C5_Witness ==
  /\ ret.op = "fib" /\ ret.a = 187 /\ ret.kind = "err"
  /\ 186 \in DOMAIN cache

\* C6: with the Hybrid strain plant_spirit_fibonacci(n) is the Fibonacci
\* number F(n) for every n <= 186, and fails for n = 187.
C6_HybridIsFibonacci ==
  (strain = "Hybrid" /\ ret.op = "fib") =>
     IF ret.a <= 186
     THEN ret.kind = "ok" /\ ret.val = StdFib[ret.a + 1]
     ELSE ret.kind = "err"

\* C7: when parallel_fibonacci_range has returned, with a map or with the
\* worker-failure error, every chunk thread it spawned has ended (none is
\* still running or about to store a value).
C7_ReturnsAfterAllTasks ==
  (main.pc = "idle" /\ ret.op = "range" /\ ret.kind \in {"ok", "err"} /\ ret.b > ret.a) =>
     \A i \in 1..Len(workers) :
        workers[i].call = Len(results) => workers[i].pc \in {"done", "panicked"}

\* C8: a range call with end <= start returns the invalid-range error,
\* spawns no thread and leaves the cache and every result map as they are;
\* the caller never waits on threads of such a range.
C8_InvalidRange ==
  /\ [](main.op = "range" => main.b > main.a)
  /\ [][(ret' # ret /\ ret'.op = "range" /\ ret'.b <= ret'.a) =>
           /\ ret'.kind = "err" /\ ret'.err = RangeError
           /\ cache' = cache /\ workers' = workers /\ results' = results
           /\ main' = main]_vars

C8_Witness ==
  ret.op = "range" /\ ret.a = 5 /\ ret.b = 5 /\ ret.err = RangeError

\* C9: until its first end-of-sequence the iterator yields the value
\* `current` at every call, except at the first call at which 100 elements
\* have been yielded or `current` exceeds u128::MAX / 2, where it yields
\* nothing; so at most 100 elements are yielded, none above u128::MAX / 2.
C9_Step ==
  (~it_ended /\ it' # it) =>
     IF Len(yielded) >= 100 \/ BitLen(it.current) > 127
     THEN it_out'.kind = "end" /\ yielded' = yielded /\ it_ended'
     ELSE it_out' = Some(it.current) /\ yielded' = Append(yielded, it.current)
          /\ ~it_ended'

C9_IteratorBounds ==
  /\ [][C9_Step]_vars
  /\ [](Len(yielded) <= 100 /\ \A k \in 1..Len(yielded) : BitLen(yielded[k]) <= 127)

C9_Witness == it_ended /\ Len(yielded) = 100 /\ it_out.kind = "end"

\* C10: for every strain the k-th element the iterator yields equals
\* plant_spirit_fibonacci(k) of an engine of that strain.
C10_IteratorMatchesEngine ==
  (ret.op = "fib" /\ ret.kind = "ok" /\ ret.a < Len(yielded)) =>
     ret.val = yielded[ret.a + 1]

\* C11: generate_sequence(count) with count <= 187 returns exactly count
\* elements, the i-th being the value of plant_spirit_fibonacci(i); with
\* count > 187 it returns the overflow error of index 187 and no sequence.
C11_GenerateSequence ==
  ret.op = "seq" =>
     IF U64Le(ret.a, 187)
     THEN /\ ret.kind = "ok"
          /\ Len(ret.val) = ret.a
          /\ \A i \in 0..(ret.a - 1) : ret.val[i + 1] = Standalone[strain][i + 1]
     ELSE ret.kind = "err" /\ ret.err = OverflowError

\* C12: a range call with start < end spawns exactly ceil((end - start) / 10)
\* threads; their chunks are contiguous from start to end, each of 1 to 10
\* indices, and each thread takes exactly the indices of its chunk, in
\* order, once; this holds as well when start is within 10 of u64::MAX.
C12_ChunkPartition ==
  /\ (ret.op = "range" /\ U64Lt(ret.a, ret.b)) => ret.kind # "panic"
  /\ main.pc = "join" =>
       LET ws == SelectSeq(workers, LAMBDA w : w.call = main.call) IN
         /\ Len(ws) = (main.b - main.a + 9) \div 10
         /\ ws[1].chunk_start = main.a
         /\ ws[Len(ws)].chunk_end = main.b
         /\ \A i \in 1..(Len(ws) - 1) : ws[i].chunk_end = ws[i + 1].chunk_start
         /\ \A i \in 1..Len(ws) :
              LET w == ws[i] IN
                /\ U64Lt(w.chunk_start, w.chunk_end)
                /\ w.chunk_end - w.chunk_start <= 10
                /\ w.pc \in {"run", "store"} =>
                      /\ U64Lt(w.n, w.chunk_end)
                      /\ w.seen = [j \in 1..(w.n - w.chunk_start + 1) |-> w.chunk_start + j - 1]
                /\ w.pc = "done" =>
                      w.seen = [j \in 1..(w.chunk_end - w.chunk_start) |-> w.chunk_start + j - 1]

\* C13: no thread owns the guard of the cache mutex or of the result-map
\* mutex outside the locked block that took it, so none owns one while it
\* recurses or while it waits at a lock(), and none owns both; under fair
\* scheduling every chunk thread finishes and every range call that has
\* spawned its threads returns.
C13_LockDiscipline ==
  /\ Cardinality(lock.cache) <= 1
  /\ Cardinality(lock.results) <= 1
  /\ lock.cache \cap lock.results = {}
  /\ (lock.cache \cup lock.results) \subseteq lock.entered
  /\ \A t \in lock.entered : Needs(t) # "none" /\ t \in lock[Needs(t)]

C13_NoDeadlock ==
  /\ []C13_LockDiscipline
  /\ \A i \in 1..MaxWorkers :
        (i <= Len(workers) /\ workers[i].pc \in {"run", "store"})
           ~> (i <= Len(workers) /\ workers[i].pc = "done")
  /\ (main.pc = "join") ~> (main.pc = "idle" /\ ret.op = "range")

\* a chunk thread waits at the lock() of the cache while another owns it
C13_Witness ==
  \E i, j \in 1..Len(workers) :
     /\ main.pc = "join"
     /\ lock.cache = {i}
     /\ Needs(j) = "cache" /\ j \notin lock.entered

====
